---------------------------- MODULE Spec2Model ----------------------------
(***************************************************************************)
(* Model of gensim/models/fasttext.py: loading a model from Facebook's     *)
(* native fastText binary (FastText.load_fasttext_format and the helpers   *)
(* it drives), at the level of the bytes of the file.                      *)
(*                                                                         *)
(* The file is a sequence of bytes (0..255).  Integers are decoded from    *)
(* their little-endian two's complement bytes; floats and doubles are kept *)
(* as their bit patterns.  Python assert statements are enabled (the       *)
(* interpreter's default).                                                  *)
(***************************************************************************)
EXTENDS Integers, Sequences, FiniteSets, TLC

(***************************************************************************)
(* Bounds of the model.                                                    *)
(***************************************************************************)
\* declared vocabulary sizes / word counts, and word entries present, range over 0..MaxVocab
MaxVocab == 2
\* pruned-index table sizes range over -1..MaxPairs
MaxPairs == 1
\* the user freezes at most MaxFrozen rows of the lock-factor masks
MaxFrozen == 1
\* 64-bit values at or beyond Huge in magnitude are kept as +-Huge
Huge == 1000000
\* a matrix read on its own is followed by 0..MaxFloats floats
MaxFloats == 4
\* the most context words in a window, and the most n-gram buckets of a word
MaxWindow == 2

VARIABLES
    entry,      \* which entry point the behaviour exercises: "load" | "check" | "matrix",
                \* or "build": a model created without a corpus, then built and grown
    stream,     \* the bytes of the file
    pos,        \* the file handle's read position (0-based offset of the next byte)
    pc,         \* position of the loader in its code
    err,        \* the exception that ended the load ("" while none)
    site,       \* the statement that raised it
    returned,   \* TRUE once load_fasttext_format has returned the model to its caller
    warnings,   \* number of logger.warning calls completed
    events,     \* the sections consumed from the file, in order
    model,      \* the FastText object (self), its wv and trainables
    vocabulary, \* the FastTextVocab under construction (v in _load_vocab)
    loc,        \* locals of _load_vocab (i, j, word_bytes, char_byte, pruneidx_size), or of
                \* init_ngrams_weights (update, old_hash2index_len)
    chk,        \* arguments and outcome of _check_model or of _load_matrix called on its own
    file,       \* the field values the file was written from, or the arguments the model
                \* was created with (never read by the program)
    snap,       \* the tables and masks as the growth in progress, or just completed, found them
    seen        \* what a reader thread saw of the tables and masks during that growth

vars == <<entry, stream, pos, pc, err, site, returned, warnings, events,
          model, vocabulary, loc, chk, file, snap, seen>>

(***************************************************************************)
(* Bytes and the struct module.                                            *)
(***************************************************************************)
Min(a, b) == IF a < b THEN a ELSE b

Max(a, b) == IF a > b THEN a ELSE b

\* s[p+1 .. p+n], the n bytes at offset p (fewer at the end of the file): file.read(n)
Read(s, p, n) == SubSeq(s, p + 1, Min(p + n, Len(s)))

\* the bytes of a 32-bit integer, little-endian two's complement
LE32(n) ==
    LET u == IF n >= 0 THEN n ELSE (n + 2147483647) + 1   \* n + 2^31, for n < 0
        b3 == (u \div 16777216) + (IF n >= 0 THEN 0 ELSE 128)
    IN  << u % 256, (u \div 256) % 256, (u \div 65536) % 256, b3 >>

\* the bytes of a 64-bit integer that fits 32 bits
LE64(n) == LE32(n) \o (IF n >= 0 THEN <<0, 0, 0, 0>> ELSE <<255, 255, 255, 255>>)

\* struct 'i': the signed 32-bit integer of the 4 bytes b
I32(b) ==
    LET low == b[1] + 256 * b[2] + 65536 * b[3]
    IN  IF b[4] < 128 THEN low + 16777216 * b[4]
        ELSE ((low + 16777216 * (b[4] - 128)) - 2147483647) - 1

Sat(x) == IF x >= Huge THEN Huge ELSE IF x <= -Huge THEN -Huge ELSE x

\* struct 'q': the signed 64-bit integer of the 8 bytes b, saturated at +-Huge
I64(b) ==
    LET lo == SubSeq(b, 1, 4)
        hi == SubSeq(b, 5, 8)
    IN  IF hi = <<0, 0, 0, 0>> /\ b[4] < 128 THEN Sat(I32(lo))
        ELSE IF hi = <<255, 255, 255, 255>> /\ b[4] >= 128 THEN Sat(I32(lo))
        ELSE IF b[8] < 128 THEN Huge ELSE -Huge

\* product of two saturated values, saturated
SatMul(a, b) ==
    IF a = 0 \/ b = 0 THEN 0
    ELSE LET aa == IF a < 0 THEN -a ELSE a
             bb == IF b < 0 THEN -b ELSE b
             neg == (a < 0) # (b < 0)
             mag == IF aa >= Huge \/ bb >= Huge \/ aa > Huge \div bb THEN Huge ELSE aa * bb
         IN  IF neg THEN -mag ELSE mag

\* struct.calcsize(fmt), native alignment
CalcSize(fmt) ==
    CASE fmt = "@2i" -> 8
      [] fmt = "@12i1d" -> 56
      [] fmt = "@10i1d" -> 48
      [] fmt = "@3i" -> 12
      [] fmt = "@1q" -> 8
      [] fmt = "@q" -> 8
      [] fmt = "@qb" -> 9
      [] fmt = "@2q" -> 16
      [] fmt = "@?" -> 1
      [] fmt = "@f" -> 4

\* _struct_unpack succeeds only on a full read: struct.unpack raises struct.error
\* when file_handle.read returned fewer than calcsize(fmt) bytes
CanUnpack(s, p, fmt) == p + CalcSize(fmt) <= Len(s)

\* the k-th (1-based) 'i' of a buffer of consecutive 32-bit integers at offset p
IntAt(s, p, k) == I32(Read(s, p + 4 * (k - 1), 4))

FASTTEXT_FILEFORMAT_MAGIC == 793712314

\* an optional argument: None, or the value v that was passed
None == {}

Some(v) == {v}

(***************************************************************************)
(* The files the loader is run on.  A file is written from a description   *)
(* (header fields, vocabulary section, two matrices), then possibly cut    *)
(* short or followed by extra bytes.                                        *)
(***************************************************************************)
\* the bit pattern of the k-th float of a matrix (a value near 1.0)
FloatBits(k) == << k % 256, 0, 128, 63 >>

\* the bit pattern of the sampling threshold 1e-4
SampleBits == << 45, 67, 28, 235, 226, 54, 26, 63 >>

Words == { <<97>>, <<98>> }

Counts == { 1, 5 }

Entries == [word : Words, count : Counts]

RECURSIVE SeqsUpTo(_, _)
SeqsUpTo(S, n) ==
    IF n = 0 THEN { <<>> }
    ELSE LET shorter == SeqsUpTo(S, n - 1)
         IN  shorter \cup { Append(q, x) : q \in { r \in shorter : Len(r) = n - 1 }, x \in S }

BaseHeader ==
    [dim |-> 2, ws |-> 4, epoch |-> 7, min_count |-> 3, neg |-> 5, unused1 |-> 100,
     loss |-> 2, model |-> 2, bucket |-> 1, minn |-> 3, maxn |-> 6, unused2 |-> 1,
     t |-> SampleBits]

HeaderBytes(fmt, h) ==
    (IF fmt = "new" THEN LE32(FASTTEXT_FILEFORMAT_MAGIC) \o LE32(12) ELSE <<>>)
    \o LE32(h.dim) \o LE32(h.ws) \o LE32(h.epoch) \o LE32(h.min_count) \o LE32(h.neg)
    \o LE32(h.unused1) \o LE32(h.loss) \o LE32(h.model) \o LE32(h.bucket)
    \o LE32(h.minn) \o LE32(h.maxn) \o LE32(h.unused2) \o h.t

RECURSIVE EntriesBytes(_)
EntriesBytes(es) ==
    IF es = <<>> THEN <<>>
    ELSE Head(es).word \o <<0>> \o LE64(Head(es).count) \o <<0>> \o EntriesBytes(Tail(es))

RECURSIVE PairsBytes(_)
PairsBytes(n) == IF n <= 0 THEN <<>> ELSE LE32(n) \o LE32(n - 1) \o PairsBytes(n - 1)

RECURSIVE FloatsBytes(_)
FloatsBytes(n) == IF n <= 0 THEN <<>> ELSE FloatsBytes(n - 1) \o FloatBits(n)

MatrixBytes(fmt, rows, cols) ==
    (IF fmt = "new" THEN <<0>> ELSE <<>>) \o LE64(rows) \o LE64(cols)
    \o FloatsBytes(rows * cols)

\* Dictionary::save of fastText: the pruned-index pairs follow the word entries
VocabBytes(fmt, d) ==
    LE32(d.vocab_size) \o LE32(d.nwords) \o LE32(d.nlabels) \o LE64(10)
    \o (IF fmt = "new" THEN LE64(d.pruneidx_size) ELSE <<>>)
    \o EntriesBytes(d.entries)
    \o (IF fmt = "new" THEN PairsBytes(d.pruneidx_size) ELSE <<>>)

FullBytes(d) ==
    HeaderBytes(d.fmt, d.hdr) \o VocabBytes(d.fmt, d)
    \o MatrixBytes(d.fmt, d.in_rows, d.in_cols)
    \o MatrixBytes(d.fmt, d.out_rows, d.out_cols)
    \o d.trailing

FileBytes(d) == IF d.cut < 0 THEN FullBytes(d) ELSE SubSeq(FullBytes(d), 1, d.cut)

\* the words of the entries es whose last count reaches min_count
KeptWords(es, min_count) ==
    { w \in { es[k].word : k \in 1..Len(es) } :
        LET last == CHOOSE k \in 1..Len(es) :
                        /\ es[k].word = w
                        /\ \A l \in (k + 1)..Len(es) : es[l].word # w
        IN  es[last].count >= min_count }

\* a well-formed file: the declared sizes and both matrices agree with the entries
WellFormed(fmt, h, es) ==
    LET kept == Cardinality(KeptWords(es, h.min_count))
    IN  [fmt |-> fmt, hdr |-> h, vocab_size |-> Len(es), nwords |-> kept, nlabels |-> 0,
         pruneidx_size |-> -1, entries |-> es,
         in_rows |-> h.bucket + kept, in_cols |-> h.dim,
         out_rows |-> kept, out_cols |-> h.dim,
         trailing |-> <<>>, cut |-> -1]

Formats == { "new", "legacy" }

TwoWords == << [word |-> <<97>>, count |-> 5], [word |-> <<98>>, count |-> 5] >>

BaseFile(fmt) == WellFormed(fmt, BaseHeader, TwoWords)

\* every declared vocabulary size and word count against every list of entries
VocabFiles ==
    { [WellFormed(fmt, BaseHeader, es) EXCEPT !.vocab_size = vs, !.nwords = nw] :
        fmt \in Formats, vs \in -1..MaxVocab, nw \in 0..MaxVocab,
        es \in SeqsUpTo(Entries, MaxVocab) }

\* the base file cut at every length
CutFiles ==
    UNION { { [BaseFile(fmt) EXCEPT !.cut = c] : c \in 0..(Len(FullBytes(BaseFile(fmt))) - 1) } :
            fmt \in Formats }

\* label counts, pruned-index tables and extra bytes at the end
MiscFiles ==
    { [BaseFile(fmt) EXCEPT !.nlabels = nl, !.pruneidx_size = ps, !.trailing = tr] :
        fmt \in Formats, nl \in -1..1, ps \in -1..MaxPairs,
        tr \in { <<>>, <<0>>, <<7, 0>> } }

\* header field values
HeaderFiles ==
    { WellFormed(fmt, [BaseHeader EXCEPT !.loss = l, !.model = md, !.neg = ng, !.bucket = b],
                 TwoWords) :
        fmt \in Formats, l \in 0..2, md \in 1..3, ng \in { 0, 5 }, b \in 0..1 }

\* matrix headers that disagree with the model parameters
MatrixFiles ==
    { [BaseFile(fmt) EXCEPT !.in_rows = ir, !.in_cols = ic, !.out_rows = orw, !.out_cols = oc] :
        fmt \in Formats, ir \in 2..4, ic \in 2..3, orw \in 1..3, oc \in 2..3 }

Files == VocabFiles \cup CutFiles \cup MiscFiles \cup HeaderFiles \cup MatrixFiles

\* a matrix on its own: the quantization flag (new format), the header, then some floats
MatrixStreamBytes(d) ==
    (IF d.fmt = "new" THEN <<d.quant>> ELSE <<>>) \o LE64(d.rows) \o LE64(d.cols)
    \o FloatsBytes(d.floats)

RECURSIVE Flatten(_)
\* the bytes of a sequence of float32 bit patterns
Flatten(data) == IF data = <<>> THEN <<>> ELSE Head(data) \o Flatten(Tail(data))

\* write_matrix(stream, matrix, is_new_format): a dense matrix, so a quantization flag
\* that is off (new format), the counts of rows and columns, the elements row by row
WriteMatrix(new_format, matrix) ==
    (IF new_format THEN <<0>> ELSE <<>>) \o LE64(matrix.rows) \o LE64(matrix.cols)
    \o Flatten(matrix.data)

\* headers with every sign of the row and column counts, followed by too few, enough
\* or too many floats
MatrixStreams ==
    { [fmt |-> fq[1], quant |-> fq[2], rows |-> r, cols |-> c, floats |-> k] :
        fq \in { <<"new", 0>>, <<"new", 1>>, <<"legacy", 0>> },
        r \in -2..2, c \in { -1, 0, 2, 3 }, k \in 0..MaxFloats }

ExpectedSizes == { None, Some(2), Some(3) }

(***************************************************************************)
(* Objects.                                                                *)
(***************************************************************************)
\* a numpy array of float32: its shape and the bit patterns of its elements, row-major
Matrix(rows, cols, data) == [rows |-> rows, cols |-> cols, data |-> data]

\* dict(): no key
EmptyDict == [w \in {} |-> 0]

\* an array of which the shape is kept and the values (random, or sums of rows) are not
Table(rows, cols) == Matrix(rows, cols, <<>>)

\* <<rows, cols>> of a two-dimensional array
Shape(m) == <<m.rows, m.cols>>

\* Ones with zeros in place of the ones
Ones_Zeros(shape) == [shape |-> shape, vals |-> [i \in 1..shape[1] |-> 0]]

\* numpy.ones(shape): a lock-factor mask of shape <<n>> or <<rows, cols>>.  vals holds
\* one value per row: a row is written as a whole, by ones, by vstack and by a user
\* who freezes it.
Ones(shape) == [shape |-> shape, vals |-> [i \in 1..shape[1] |-> 1]]

\* m.take(indices, axis=0): the rows of the mask m at the 0-based indices, in their order
Take(m, indices) ==
    [shape |-> [m.shape EXCEPT ![1] = Len(indices)],
     vals |-> [i \in 1..Len(indices) |-> m.vals[indices[i] + 1]]]

\* FastTextKeyedVectors(vector_size, min_n, max_n, bucket, compatible_hash): no vocabulary,
\* no vectors yet.  vocab is the set of the words, hash2index the set of its keys.
FastTextKeyedVectors(vector_size, min_n, max_n, bucket, compatible_hash) ==
    [vector_size |-> vector_size, min_n |-> min_n, max_n |-> max_n, bucket |-> bucket,
     compatible_hash |-> compatible_hash, vocab |-> {},
     vectors_rows |-> 0, vectors_vocab |-> Table(0, vector_size),
     vectors_ngrams |-> Matrix(0, vector_size, <<>>),
     hash2index |-> {}, buckets_word |-> "dict"]

\* FastTextVocab(sample=sample, min_count=min_count)
\* (old_vocab_len is set by build_vocab and _set_train_params before it is first read)
FastTextVocab(sample, min_count) ==
    [sample |-> sample, min_count |-> min_count, vocab_size |-> 0, nwords |-> 0,
     raw_vocab |-> EmptyDict, old_vocab_len |-> 0]

\* FastTextTrainables.__init__ followed by prepare_weights(update=False) on an empty
\* vocabulary: ngram_indices is empty and the masks are ones((0, vector_size)).
\* compatible_hash is Some(value), or None on an object that has no such attribute.
\* (old_hash2index_len is set by build_vocab and _set_train_params)
FastTextTrainables(vector_size, bucket, compatible_hash) ==
    [bucket |-> bucket, compatible_hash |-> Some(compatible_hash),
     layer1_size |-> vector_size,
     vectors_lockf |-> Ones(<<0>>), vectors_vocab_lockf |-> Ones(<<0, vector_size>>),
     vectors_ngrams_lockf |-> Take(Ones(<<bucket, vector_size>>), <<>>),
     syn1 |-> Matrix(0, 0, <<>>), syn1neg |-> Matrix(0, vector_size, <<>>),
     old_hash2index_len |-> 0]

\* FastText(): cls() with the default arguments of __init__
NewFastText ==
    [new_format |-> FALSE, vector_size |-> 100, window |-> 5, epochs |-> 5, negative |-> 5,
     hs |-> FALSE, sg |-> FALSE, compatible_hash |-> TRUE, word_ngrams |-> 1,
     num_original_vectors |-> 0, trainables_compatible_hash |-> None,
     wv |-> FastTextKeyedVectors(100, 3, 6, 2000000, TRUE),
     vocabulary |-> FastTextVocab(<<252, 169, 241, 210, 77, 98, 80, 63>>, 5),
     trainables |-> FastTextTrainables(100, 2000000, TRUE)]

\* BucketArg with the number of word n-grams left out of the test
BucketArg_MaxNOnly(word_ngrams, max_n, bucket) == IF max_n = 0 THEN 0 ELSE bucket

\* __init__, lines 394-395: the bucket count after the test for a model without n-grams
BucketArg(word_ngrams, max_n, bucket) ==
    IF word_ngrams <= 1 /\ max_n = 0 THEN 0 ELSE bucket

\* FastText(size=size, min_n=min_n, max_n=max_n, bucket=bucket, word_ngrams=word_ngrams,
\* compatible_hash=compatible_hash) without sentences, lines 393-406
FastText(size, min_n, max_n, bucket, word_ngrams, compatible_hash) ==
    LET b == BucketArg(word_ngrams, max_n, bucket)
        trainables == FastTextTrainables(size, b, compatible_hash)
    IN  [NewFastText EXCEPT
            !.vector_size = size,
            !.word_ngrams = word_ngrams,
            !.wv = [FastTextKeyedVectors(size, min_n, max_n, b, compatible_hash)
                        EXCEPT !.bucket = trainables.bucket],
            !.trainables = trainables,
            !.compatible_hash = compatible_hash]

NoLocals == [i |-> 0, j |-> 0, word_bytes |-> <<>>, char_byte |-> <<>>, pruneidx_size |-> 0,
             min_count |-> 0, t |-> <<>>]

NoCheck == [vector_size |-> 0, ngrams_cols |-> 0, syn1neg |-> "None", syn1neg_cols |-> 0,
            vocab_len |-> 0, nwords |-> 0, vocab_size |-> 0]

(***************************************************************************)
(* Pure parts of the loader.                                               *)
(***************************************************************************)
\* _load_model_params, lines 810-812 and 816: the format of a file that holds the
\* first two integers
IsNewFormat(s) == IntAt(s, 0, 1) = FASTTEXT_FILEFORMAT_MAGIC

\* the bytes _load_model_params reads: '@2i', then '@12i1d' or '@10i1d'
HeaderSize(new_format) ==
    CalcSize("@2i") + (IF new_format THEN CalcSize("@12i1d") ELSE CalcSize("@10i1d"))

\* ParseHeader with a slip: the fields of a legacy header are taken at the places
\* they have after the magic and version of a new-format header
ParseHeader_LegacyAsNew(s) ==
    [new_format |-> IsNewFormat(s),
     dim |-> IntAt(s, 8, 1), ws |-> IntAt(s, 8, 2), epoch |-> IntAt(s, 8, 3),
     min_count |-> IntAt(s, 8, 4), neg |-> IntAt(s, 8, 5), loss |-> IntAt(s, 8, 7),
     model |-> IntAt(s, 8, 8), bucket |-> IntAt(s, 8, 9), minn |-> IntAt(s, 8, 10),
     maxn |-> IntAt(s, 8, 11),
     t |-> IF IsNewFormat(s) THEN Read(s, 8 + 48, 8) ELSE Read(s, 8 + 40, 8)]

\* _load_model_params, lines 810-819: the fields of a header that is all there
ParseHeader(s) ==
    LET magic == IntAt(s, 0, 1)
        version == IntAt(s, 0, 2)
    IN  IF IsNewFormat(s)
        THEN [new_format |-> TRUE,
              dim |-> IntAt(s, 8, 1), ws |-> IntAt(s, 8, 2), epoch |-> IntAt(s, 8, 3),
              min_count |-> IntAt(s, 8, 4), neg |-> IntAt(s, 8, 5), loss |-> IntAt(s, 8, 7),
              model |-> IntAt(s, 8, 8), bucket |-> IntAt(s, 8, 9), minn |-> IntAt(s, 8, 10),
              maxn |-> IntAt(s, 8, 11), t |-> Read(s, 8 + 48, 8)]
        ELSE [new_format |-> FALSE,
              dim |-> magic, ws |-> version, epoch |-> IntAt(s, 8, 1),
              min_count |-> IntAt(s, 8, 2), neg |-> IntAt(s, 8, 3), loss |-> IntAt(s, 8, 5),
              model |-> IntAt(s, 8, 6), bucket |-> IntAt(s, 8, 7), minn |-> IntAt(s, 8, 8),
              maxn |-> IntAt(s, 8, 9), t |-> Read(s, 8 + 40, 8)]

\* bytes.decode(encoding) with the default 'utf8'.  No byte of the files above is a
\* UTF-8 lead byte inside the vocabulary or matrix sections, so a sequence decodes
\* exactly when it is ASCII, and then to the characters with these code points.
CanDecode(word_bytes) == \A k \in 1..Len(word_bytes) : word_bytes[k] < 128

\* DictSet with the count added to the count the word already has
DictSet_Accumulate(d, word, count) ==
    [w \in (DOMAIN d) \cup {word} |->
        IF w # word THEN d[w] ELSE IF word \in DOMAIN d THEN d[w] + count ELSE count]

\* v.raw_vocab[word] = count
DictSet(d, word, count) ==
    [w \in (DOMAIN d) \cup {word} |-> IF w = word THEN count ELSE d[w]]

\* Word2VecVocab.prepare_vocab(update=True, min_count=min_count) on this wv: the words
\* of raw_vocab whose count reaches min_count join wv.vocab
PrepareVocab(wv_vocab, raw_vocab, min_count) ==
    wv_vocab \cup { w \in DOMAIN raw_vocab : raw_vocab[w] >= min_count }

\* numpy reshape((rows, cols)) of n elements succeeds
CanReshape(n, rows, cols) ==
    \/ rows >= 0 /\ cols >= 0 /\ SatMul(rows, cols) = n
    \/ rows = -1 /\ cols > 0 /\ n % cols = 0
    \/ cols = -1 /\ rows > 0 /\ n % rows = 0

RECURSIVE Floats(_, _, _)
\* the n float32 bit patterns at offset p
Floats(s, p, n) ==
    IF n <= 0 THEN <<>> ELSE <<Read(s, p, 4)>> \o Floats(s, p + 4, n - 1)

\* DimMatches with the assertion left out
DimMatches_Unchecked(expected_vector_size, dim) == TRUE

\* _load_matrix, line 1012: expected_vector_size is None or expected_vector_size == dim
DimMatches(expected_vector_size, dim) ==
    expected_vector_size = None \/ expected_vector_size = Some(dim)

\* _load_matrix(file_handle, new_format, expected_vector_size) with the handle at p:
\* [err, site, pos, matrix]; err = "" on success
LoadMatrix(s, p, new_format, expected_vector_size) ==
    LET none == Matrix(0, 0, <<>>)
        p1 == IF new_format THEN p + CalcSize("@?") ELSE p
        p2 == p1 + CalcSize("@2q")
        num_vectors == I64(Read(s, p1, 8))
        dim == I64(Read(s, p1 + 8, 8))
        count == SatMul(num_vectors, dim)
        avail == (Len(s) - p2) \div CalcSize("@f")
        n == IF count < 0 THEN avail ELSE Min(count, avail)
        rows == IF num_vectors = -1 /\ dim > 0 THEN n \div dim ELSE num_vectors
        cols == IF dim = -1 /\ num_vectors > 0 THEN n \div num_vectors ELSE dim
    IN  IF new_format /\ ~CanUnpack(s, p, "@?")
        THEN [err |-> "struct.error", site |-> "quant_input", pos |-> Len(s), matrix |-> none]
        ELSE IF ~CanUnpack(s, p1, "@2q")
        THEN [err |-> "struct.error", site |-> "matrix_header", pos |-> Len(s), matrix |-> none]
        ELSE IF ~DimMatches(expected_vector_size, dim)
        THEN [err |-> "AssertionError", site |-> "matrix_dim", pos |-> p2, matrix |-> none]
        ELSE IF count >= Huge
        THEN [err |-> "MemoryError", site |-> "fromfile", pos |-> p2, matrix |-> none]
        ELSE IF ~CanReshape(n, num_vectors, dim)
        THEN [err |-> "ValueError", site |-> "reshape", pos |-> p2 + 4 * n, matrix |-> none]
        ELSE [err |-> "", site |-> "", pos |-> p2 + 4 * n,
              matrix |-> Matrix(rows, cols, Floats(s, p2, n))]

\* LoadModelParamsChecks with the word-count assertion left out
LoadModelParamsChecks_NoAssert(vocab_len, nwords, vocab_size) ==
    IF vocab_len # vocab_size THEN [err |-> "NameError", site |-> "vocab_size_warning"]
    ELSE [err |-> "", site |-> ""]

\* _load_model_params, lines 839-850: the two size checks after prepare_vocab
\* ("" when both pass).  The arguments of logger.warning are evaluated before the call,
\* and the name `vocabulary` is bound nowhere in the module.
LoadModelParamsChecks(vocab_len, nwords, vocab_size) ==
    IF vocab_len # nwords THEN [err |-> "AssertionError", site |-> "nwords"]
    ELSE IF vocab_len # vocab_size THEN [err |-> "NameError", site |-> "vocab_size_warning"]
    ELSE [err |-> "", site |-> ""]

\* _check_model(m), lines 1270-1290
CheckModelChecks(c) ==
    IF c.vector_size # c.ngrams_cols THEN [err |-> "AssertionError", site |-> "ngrams_dim"]
    ELSE IF c.syn1neg # "None" /\ c.vector_size # c.syn1neg_cols
    THEN [err |-> "AssertionError", site |-> "syn1neg_dim"]
    ELSE IF c.vocab_len # c.nwords THEN [err |-> "AssertionError", site |-> "nwords"]
    ELSE IF c.vocab_len # c.vocab_size THEN [err |-> "NameError", site |-> "vocab_size_warning"]
    ELSE [err |-> "", site |-> ""]

\* FastTextTrainables.init_post_load(model, hidden_output), lines 1167-1196
InitPostLoad(tr, wv, hs, negative, hidden_output) ==
    [tr EXCEPT !.vectors_lockf = Ones(<<wv.vectors_rows>>),
               !.vectors_ngrams_lockf = Ones(<<wv.vectors_rows, wv.vector_size>>),
               !.vectors_vocab_lockf = Ones(<<Cardinality(wv.vocab), wv.vector_size>>),
               !.syn1 = IF hs THEN hidden_output ELSE @,
               !.syn1neg = IF negative # 0 THEN hidden_output ELSE @,
               !.layer1_size = wv.vector_size]

(***************************************************************************)
(* The n-gram hasher and the tables of the keyed vectors.                  *)
(***************************************************************************)
\* bitwise exclusive or of two naturals below 2^16
Xor(a, b) ==
    LET bit(k) == IF (a \div 2^k) % 2 = (b \div 2^k) % 2 THEN 0 ELSE 2^k
    IN  bit(0) + bit(1) + bit(2) + bit(3) + bit(4) + bit(5) + bit(6) + bit(7)
        + bit(8) + bit(9) + bit(10) + bit(11) + bit(12) + bit(13) + bit(14) + bit(15)

\* one round of the 32-bit FNV-1a hash on h = <<high 16 bits, low 16 bits>>: the byte,
\* sign-extended as a C char, is xor-ed in and the result multiplied by 16777619
\* (2^24 + 403) modulo 2^32
FtHashStep(h, byte) ==
    LET hi == IF byte >= 128 THEN Xor(h[1], 65535) ELSE h[1]
        lo == Xor(h[2], IF byte >= 128 THEN 65280 + byte ELSE byte)
        low == lo * 403
    IN  << (hi * 403 + (low \div 65536) + (lo % 256) * 256) % 65536, low % 65536 >>

RECURSIVE FtHashFrom(_, _)
\* the 32-bit FNV-1a hash, continued from h over bytes
FtHashFrom(h, bytes) ==
    IF bytes = <<>> THEN h
    ELSE CHOOSE r \in { FtHashFrom(next, Tail(bytes)) :
                           next \in { FtHashStep(h, Head(bytes)) } } : TRUE

\* _ft_hash(ngram): FNV-1a from the offset basis 2166136261 with the prime 16777619.
\* The two hash variants agree on ASCII, which the words of the model are.
FtHash(ngram) == FtHashFrom(<<33052, 40389>>, ngram)

\* hash % bucket for a bucket count below 2^15
BucketOf(ngram, bucket) ==
    LET h == FtHash(ngram)
    IN  ((h[1] % bucket) * (65536 % bucket) + h[2]) % bucket

\* _compute_ngrams(word, min_n, max_n): the substrings of '<' + word + '>' of every
\* length in min_n..max_n (as a set)
Ngrams(word, min_n, max_n) ==
    LET extended == <<60>> \o word \o <<62>>
    IN  { SubSeq(extended, i, i + n - 1) :
            <<n, i>> \in { q \in (min_n..Min(max_n, Len(extended))) \X (1..Len(extended)) :
                              q[2] + q[1] - 1 <= Len(extended) } }

\* the bucket indices of the n-grams of the words of wv.vocab; none when bucket is 0
BucketsOf(wv) ==
    IF wv.bucket = 0 THEN {}
    ELSE { BucketOf(g, wv.bucket) :
             g \in UNION { Ngrams(w, wv.min_n, wv.max_n) : w \in wv.vocab } }

RECURSIVE Sorted(_)
\* the elements of a finite set of integers in ascending order
Sorted(S) ==
    IF S = {} THEN <<>>
    ELSE LET least == CHOOSE x \in S : \A y \in S : x <= y
         IN  <<least>> \o Sorted(S \ {least})

\* the ngram_indices that wv.init_ngrams_weights returns: the keys of hash2index
NgramIndices(wv) == Sorted(BucketsOf(wv))

\* FastTextKeyedVectors.init_ngrams_weights(seed): hash2index and buckets_word from the
\* vocabulary, one random row per word and one per bucket in use
WvInitNgramsWeights(wv) ==
    [wv EXCEPT !.hash2index = BucketsOf(wv),
               !.buckets_word = "dict",
               !.vectors_vocab = Table(Cardinality(wv.vocab), wv.vector_size),
               !.vectors_ngrams = Table(Cardinality(BucketsOf(wv)), wv.vector_size)]

\* FastTextKeyedVectors.update_ngrams_weights(seed, old_vocab_len): the buckets of the
\* new words join hash2index, and random rows are appended for the new words and for
\* the new buckets
WvUpdateNgramsWeights(wv, old_vocab_len) ==
    LET new_ngrams == BucketsOf(wv) \ wv.hash2index
    IN  [wv EXCEPT !.hash2index = @ \cup new_ngrams,
                   !.buckets_word = "dict",
                   !.vectors_vocab = Table(@.rows + Cardinality(wv.vocab) - old_vocab_len,
                                           @.cols),
                   !.vectors_ngrams = Table(@.rows + Cardinality(new_ngrams), @.cols)]

RECURSIVE RowsData(_, _)
\* the elements of the rows of the matrix m at the 0-based indices, row after row
RowsData(m, indices) ==
    IF indices = <<>> THEN <<>>
    ELSE SubSeq(m.data, Head(indices) * m.cols + 1, (Head(indices) + 1) * m.cols)
         \o RowsData(m, Tail(indices))

\* PadOnes with the new rows put before the rows of m
PadOnes_Prepend(m, new_rows) ==
    IF Len(m.shape) # 2 \/ new_rows < 0 THEN [err |-> "ValueError", m |-> m]
    ELSE [err |-> "",
          m |-> [shape |-> <<m.shape[1] + new_rows, m.shape[2]>>,
                 vals |-> Ones(<<new_rows, m.shape[2]>>).vals \o m.vals]]

\* _pad_ones(m, new_rows), lines 1199-1203: [err, m].  Unpacking m.shape fails on a mask
\* that is not two-dimensional, ones on a negative number of rows.
PadOnes(m, new_rows) ==
    IF Len(m.shape) # 2 \/ new_rows < 0 THEN [err |-> "ValueError", m |-> m]
    ELSE [err |-> "",
          m |-> [shape |-> <<m.shape[1] + new_rows, m.shape[2]>>,
                 vals |-> m.vals \o Ones(<<new_rows, m.shape[2]>>).vals]]

(***************************************************************************)
(* The loader, one action per step of FastText.load_fasttext_format.       *)
(***************************************************************************)
\* IsSupervised with the comparison widened to every nonzero count
IsSupervised_NonZero(nlabels) == nlabels # 0

\* _load_vocab, line 1079: the model is a supervised one
IsSupervised(nlabels) == nlabels > 0

\* WordLoopBound with the declared word count as the bound
WordLoopBound_nwords(v) == v.nwords

\* _load_vocab, line 1088: the number of word entries to read, range(v.vocab_size)
WordLoopBound(v) == v.vocab_size

\* VocabNextPc with the pruned-index pairs skipped before the word entries
VocabNextPc_PairsFirst(after, new_format) ==
    CASE after = "sizes" -> IF new_format THEN "prune_for" ELSE "word_for"
      [] after = "pairs" -> "word_for"
      [] after = "words" -> "prepare"

\* _load_vocab, lines 1083-1103: what follows the sizes ("sizes"), the word entries
\* ("words") and the pruned-index pairs ("pairs")
VocabNextPc(after, new_format) ==
    CASE after = "sizes" -> "word_for"
      [] after = "words" -> IF new_format THEN "prune_for" ELSE "prepare"
      [] after = "pairs" -> "prepare"

\* LoadBinaryDataNextPc with _load_trainables called before _load_vectors
LoadBinaryDataNextPc_Swapped(after) ==
    CASE after = "_load_model_params" -> "load_trainables"
      [] after = "_load_trainables" -> "load_vectors"
      [] after = "_load_vectors" -> "return"

\* load_binary_data, lines 797-799: what follows _load_model_params, _load_vectors and
\* _load_trainables
LoadBinaryDataNextPc(after) ==
    CASE after = "_load_model_params" -> "load_vectors"
      [] after = "_load_vectors" -> "load_trainables"
      [] after = "_load_trainables" -> "return"

\* AtEOF with the check left out
AtEOF_Unchecked(s, p) == TRUE

\* _load_trainables, line 883: file_handle.read() returns no byte when the handle is at p
AtEOF(s, p) == Read(s, p, Len(s)) = <<>>

\* Raise with the exception caught in load_binary_data: the caller goes on to return model
Raise_Swallowed(e, where) ==
    /\ pc' = "return"
    /\ err' = e
    /\ site' = where

\* an exception leaves load_binary_data and load_fasttext_format: no return statement runs
Raise(e, where) ==
    /\ pc' = "failed"
    /\ err' = e
    /\ site' = where

\* _load_model_params, line 825, and _load_fasttext_format, line 1238: hierarchical
\* softmax is on
HierarchicalSoftmax(loss) == loss = 1

\* SkipGram with every model type but the first taken as skip-gram
SkipGram_NotFirst(model_type) == model_type # 1

\* _load_model_params, line 826, and _load_fasttext_format, line 1239: the model is a
\* skip-gram model
SkipGram(model_type) == model_type = 2

\* _load_model_params, lines 810-830: the model parameters
LoadModelParams ==
    /\ entry = "load" /\ pc = "load_model_params"
    /\ UNCHANGED <<entry, stream, returned, warnings, vocabulary, chk, file, snap, seen>>
    /\ IF ~CanUnpack(stream, 0, "@2i")
       THEN /\ Raise("struct.error", "magic")
            /\ pos' = Len(stream)
            /\ UNCHANGED <<model, loc, events>>
       ELSE LET h == ParseHeader(stream)
            IN  IF Len(stream) < HeaderSize(IsNewFormat(stream))
                THEN /\ Raise("struct.error", "header")
                     /\ pos' = Len(stream)
                     /\ model' = [model EXCEPT !.new_format = IsNewFormat(stream)]
                     /\ UNCHANGED <<loc, events>>
                ELSE /\ pos' = HeaderSize(h.new_format)
                     /\ model' = [model EXCEPT
                            !.new_format = h.new_format,
                            !.vector_size = h.dim,
                            !.window = h.ws,
                            !.epochs = h.epoch,
                            !.negative = h.neg,
                            !.hs = HierarchicalSoftmax(h.loss),
                            !.sg = SkipGram(h.model),
                            !.trainables.bucket = h.bucket,
                            !.wv = FastTextKeyedVectors(h.dim, h.minn, h.maxn, h.bucket, TRUE)]
                     /\ loc' = [loc EXCEPT !.min_count = h.min_count, !.t = h.t]
                     /\ events' = Append(events, "header")
                     /\ pc' = "load_vocab"
                     /\ UNCHANGED <<err, site>>

\* _load_vocab, lines 1075-1087: the sizes, the label check, the token count and the
\* pruned-index table size
LoadVocabHeader ==
    /\ entry = "load" /\ pc = "load_vocab"
    /\ UNCHANGED <<entry, stream, returned, warnings, model, chk, file, snap, seen>>
    /\ LET v == FastTextVocab(loc.t, loc.min_count)
           p1 == pos + CalcSize("@3i")
           nlabels == IntAt(stream, pos, 3)
           p2 == p1 + CalcSize("@1q")
           p3 == IF model.new_format THEN p2 + CalcSize("@q") ELSE p2
       IN  IF ~CanUnpack(stream, pos, "@3i")
           THEN /\ Raise("struct.error", "vocab_sizes")
                /\ pos' = Len(stream)
                /\ vocabulary' = v
                /\ UNCHANGED <<loc, events>>
           ELSE /\ vocabulary' = [v EXCEPT !.vocab_size = IntAt(stream, pos, 1),
                                           !.nwords = IntAt(stream, pos, 2),
                                           !.raw_vocab = EmptyDict]
                /\ IF IsSupervised(nlabels)
                   THEN /\ Raise("NotImplementedError", "nlabels")
                        /\ pos' = p1
                        /\ events' = Append(events, "vocab_sizes")
                        /\ UNCHANGED loc
                   ELSE IF ~CanUnpack(stream, p1, "@1q")
                   THEN /\ Raise("struct.error", "ntokens")
                        /\ pos' = Len(stream)
                        /\ events' = Append(events, "vocab_sizes")
                        /\ UNCHANGED loc
                   ELSE IF model.new_format /\ ~CanUnpack(stream, p2, "@q")
                   THEN /\ Raise("struct.error", "pruneidx_size")
                        /\ pos' = Len(stream)
                        /\ events' = events \o <<"vocab_sizes", "ntokens">>
                        /\ UNCHANGED loc
                   ELSE /\ pos' = p3
                        /\ loc' = [loc EXCEPT
                               !.pruneidx_size =
                                   IF model.new_format THEN I64(Read(stream, p2, 8)) ELSE @,
                               !.i = 0]
                        /\ events' = events \o <<"vocab_sizes", "ntokens">>
                                     \o (IF model.new_format THEN <<"pruneidx_size">> ELSE <<>>)
                        /\ pc' = VocabNextPc("sizes", model.new_format)
                        /\ UNCHANGED <<err, site>>

\* _load_vocab, lines 1088-1090 and 1099: the head of the loop over the word entries
WordFor ==
    /\ entry = "load" /\ pc = "word_for"
    /\ UNCHANGED <<entry, stream, err, site, returned, warnings, events, model,
                   vocabulary, chk, file, snap, seen>>
    /\ IF loc.i < WordLoopBound(vocabulary)
       THEN /\ loc' = [loc EXCEPT !.word_bytes = <<>>, !.char_byte = Read(stream, pos, 1)]
            /\ pos' = Min(pos + 1, Len(stream))
            /\ pc' = "word_while"
       ELSE /\ loc' = [loc EXCEPT !.j = 0]
            /\ pc' = VocabNextPc("words", model.new_format)
            /\ UNCHANGED pos

\* _load_vocab, line 1092: the test of the loop over the bytes of a word
WordWhile ==
    /\ entry = "load" /\ pc = "word_while"
    /\ pc' = IF loc.char_byte # <<0>> THEN "word_body" ELSE "word_end"
    /\ UNCHANGED <<entry, stream, pos, err, site, returned, warnings, events, model,
                   vocabulary, loc, chk, file, snap, seen>>

\* _load_vocab, lines 1093-1094: one more byte of the word
WordBody ==
    /\ entry = "load" /\ pc = "word_body"
    /\ loc' = [loc EXCEPT !.word_bytes = @ \o loc.char_byte,
                          !.char_byte = Read(stream, pos, 1)]
    /\ pos' = Min(pos + 1, Len(stream))
    /\ pc' = "word_while"
    /\ UNCHANGED <<entry, stream, err, site, returned, warnings, events, model,
                   vocabulary, chk, file, snap, seen>>

\* _load_vocab, lines 1095-1097: decode the word, read its count and the entry type
WordEnd ==
    /\ entry = "load" /\ pc = "word_end"
    /\ UNCHANGED <<entry, stream, returned, warnings, model, chk, file, snap, seen>>
    /\ IF ~CanDecode(loc.word_bytes)
       THEN /\ Raise("UnicodeDecodeError", "decode")
            /\ UNCHANGED <<pos, vocabulary, loc, events>>
       ELSE IF ~CanUnpack(stream, pos, "@qb")
       THEN /\ Raise("struct.error", "count")
            /\ pos' = Len(stream)
            /\ UNCHANGED <<vocabulary, loc, events>>
       ELSE /\ vocabulary' = [vocabulary EXCEPT
                   !.raw_vocab = DictSet(@, loc.word_bytes, I64(Read(stream, pos, 8)))]
            /\ pos' = pos + CalcSize("@qb")
            /\ loc' = [loc EXCEPT !.i = @ + 1]
            /\ events' = Append(events, "word")
            /\ pc' = "word_for"
            /\ UNCHANGED <<err, site>>

\* _load_vocab, lines 1099-1103: skip the pruned-index pairs, one per step
PruneFor ==
    /\ entry = "load" /\ pc = "prune_for"
    /\ UNCHANGED <<entry, stream, returned, warnings, model, vocabulary, chk, file, snap, seen>>
    /\ IF loc.j < loc.pruneidx_size
       THEN IF ~CanUnpack(stream, pos, "@2i")
            THEN /\ Raise("struct.error", "pruneidx")
                 /\ pos' = Len(stream)
                 /\ UNCHANGED <<loc, events>>
            ELSE /\ pos' = pos + CalcSize("@2i")
                 /\ loc' = [loc EXCEPT !.j = @ + 1]
                 /\ events' = Append(events, "pair")
                 /\ UNCHANGED <<pc, err, site>>
       ELSE /\ pc' = VocabNextPc("pairs", model.new_format)
            /\ UNCHANGED <<pos, loc, events, err, site>>

\* _load_model_params, lines 831-850: keep the vocabulary, prepare it, compare its size
\* with the declared sizes
PrepareAndCheck ==
    /\ entry = "load" /\ pc = "prepare"
    /\ UNCHANGED <<entry, stream, pos, returned, warnings, events, vocabulary, loc, chk, file, snap, seen>>
    /\ LET vocab == PrepareVocab(model.wv.vocab, vocabulary.raw_vocab, loc.min_count)
           r == LoadModelParamsChecks(Cardinality(vocab), vocabulary.nwords,
                                      vocabulary.vocab_size)
       IN  /\ model' = [model EXCEPT !.vocabulary = vocabulary, !.wv.vocab = vocab]
           /\ IF r.err # ""
              THEN Raise(r.err, r.site)
              ELSE /\ pc' = LoadBinaryDataNextPc("_load_model_params")
                   /\ UNCHANGED <<err, site>>

\* ExpectedShape with the bucket rows left out
ExpectedShape_NoBucket(bucket, vocab_len, vector_size) == <<vocab_len, vector_size>>

\* _load_vectors, line 868: (self.trainables.bucket + len(self.wv.vocab), self.wv.vector_size)
ExpectedShape(bucket, vocab_len, vector_size) == <<bucket + vocab_len, vector_size>>

\* _load_vectors, lines 861-872: the input matrix and its shape
LoadVectors ==
    /\ entry = "load" /\ pc = "load_vectors"
    /\ UNCHANGED <<entry, stream, returned, warnings, vocabulary, loc, chk, file, snap, seen>>
    /\ LET r == LoadMatrix(stream, pos, model.new_format, Some(model.wv.vector_size))
           m == r.matrix
       IN  /\ pos' = r.pos
           /\ IF r.err # ""
              THEN /\ Raise(r.err, r.site)
                   /\ UNCHANGED <<model, events>>
              ELSE /\ model' = [model EXCEPT !.wv.vectors_ngrams = m,
                                             !.num_original_vectors = m.rows]
                   /\ events' = Append(events, "input_matrix")
                   /\ IF <<m.rows, m.cols>> # ExpectedShape(model.trainables.bucket,
                                                            Cardinality(model.wv.vocab),
                                                            model.wv.vector_size)
                      THEN Raise("AssertionError", "shape")
                      ELSE /\ pc' = LoadBinaryDataNextPc("_load_vectors")
                           /\ UNCHANGED <<err, site>>

\* FastTextKeyedVectors.init_ngrams_post_load: wv.vectors gets one row per vocabulary
\* word, hash2index the buckets of the vocabulary, and of the rows of the input matrix
\* only those of the buckets in use are kept in vectors_ngrams (they follow the rows of
\* the words)
InitNgramsPostLoad(wv) ==
    LET indices == [k \in 1..Len(NgramIndices(wv)) |->
                       Cardinality(wv.vocab) + NgramIndices(wv)[k]]
    IN  [wv EXCEPT !.vectors_rows = Cardinality(wv.vocab),
                   !.hash2index = BucketsOf(wv),
                   !.buckets_word = "dict",
                   !.vectors_ngrams = Matrix(Len(indices), @.cols, RowsData(@, indices))]

\* FastTextKeyedVectors.init_vectors_vocab: vectors_vocab gets one row per vocabulary word
InitVectorsVocab(wv) ==
    [wv EXCEPT !.vectors_vocab = Table(Cardinality(wv.vocab), wv.vector_size)]

\* _load_trainables, lines 875-886: the hidden-output matrix, the end of the file, the
\* trainables
LoadTrainables ==
    /\ entry = "load" /\ pc = "load_trainables"
    /\ UNCHANGED <<entry, stream, returned, warnings, vocabulary, loc, chk, file, snap, seen>>
    /\ LET wv == InitNgramsPostLoad(model.wv)
           r == LoadMatrix(stream, pos, model.new_format, Some(wv.vector_size))
       IN  IF r.err # ""
           THEN /\ Raise(r.err, r.site)
                /\ pos' = r.pos
                /\ model' = [model EXCEPT !.wv = wv]
                /\ UNCHANGED events
           ELSE /\ pos' = Len(stream)
                /\ events' = events \o <<"output_matrix", "eof">>
                /\ IF ~AtEOF(stream, r.pos)
                   THEN /\ Raise("AssertionError", "eof")
                        /\ model' = [model EXCEPT !.wv = wv]
                   ELSE IF ~(wv.vectors_rows > 0)
                   THEN /\ Raise("AssertionError", "num_vectors")
                        /\ model' = [model EXCEPT !.wv = wv]
                   ELSE /\ model' = [model EXCEPT
                               !.wv = InitVectorsVocab(wv),
                               !.trainables = InitPostLoad(@, wv, model.hs, model.negative,
                                                           r.matrix)]
                        /\ pc' = LoadBinaryDataNextPc("_load_trainables")
                        /\ UNCHANGED <<err, site>>

\* load_fasttext_format, line 783: return model
ReturnModel ==
    /\ entry = "load" /\ pc = "return"
    /\ returned' = TRUE
    /\ pc' = "done"
    /\ UNCHANGED <<entry, stream, pos, err, site, warnings, events, model, vocabulary,
                   loc, chk, file, snap, seen>>

\* _load_fasttext_format, lines 1258-1263: _check_model on the model built from the
\* parsed file, then the post-load initialisation and return model
CheckModel ==
    /\ entry = "check" /\ pc = "check_model"
    /\ UNCHANGED <<entry, stream, pos, warnings, events, model, vocabulary, loc, chk, file, snap, seen>>
    /\ LET r == CheckModelChecks(chk)
       IN  IF r.err # ""
           THEN /\ Raise(r.err, r.site)
                /\ UNCHANGED returned
           ELSE IF ~(chk.vocab_len > 0)
           THEN /\ Raise("AssertionError", "num_vectors")
                /\ UNCHANGED returned
           ELSE /\ returned' = TRUE
                /\ pc' = "done"
                /\ UNCHANGED <<err, site>>

\* _load_matrix called on its own, lines 979-1027
CallLoadMatrix ==
    /\ entry = "matrix" /\ pc = "load_matrix"
    /\ UNCHANGED <<entry, stream, returned, warnings, events, model, vocabulary, loc, file, snap, seen>>
    /\ LET r == LoadMatrix(stream, pos, chk.new_format, chk.expected_vector_size)
       IN  /\ pos' = r.pos
           /\ IF r.err # ""
              THEN /\ Raise(r.err, r.site)
                   /\ UNCHANGED chk
              ELSE /\ chk' = [chk EXCEPT !.matrix = r.matrix]
                   /\ pc' = "done"
                   /\ UNCHANGED <<err, site>>

(***************************************************************************)
(* Building and growing the vocabulary of a model, and the lock-factor     *)
(* masks that go with its tables.  A growth is a sequence of steps, between *)
(* which another thread may run.                                           *)
(***************************************************************************)
\* the words a corpus may hold, each of them often enough to be kept
BuildWords == Words \cup { <<99>> }

\* the arguments of the constructor.  With 2 buckets the n-grams of the first and third
\* word share a bucket; with max_n = 0 no word has an n-gram.
BuildArgs ==
    { [word_ngrams |-> a[1], min_n |-> 3, max_n |-> a[2], bucket |-> a[3],
       compatible_hash |-> TRUE] :
        a \in { <<1, 6, 2>>, <<1, 0, 2>>, <<0, 0, 2>>, <<2, 0, 2>> } }

NgramLocals == [update |-> FALSE, old_hash2index_len |-> 0]

NoSnap == [op |-> "none"]

\* the tables and masks of the model m as the operation op finds them
Snapshot(op, m) ==
    [op |-> op,
     vocab_len |-> Cardinality(m.wv.vocab),
     vectors_vocab |-> Shape(m.wv.vectors_vocab),
     vectors_vocab_lockf |-> m.trainables.vectors_vocab_lockf,
     vectors_ngrams |-> Shape(m.wv.vectors_ngrams),
     vectors_ngrams_lockf |-> m.trainables.vectors_ngrams_lockf]

NoObservation == [at |-> "never"]

\* BaseWordEmbeddingsModel.build_vocab up to the call of init_ngrams_weights: the words
\* of the corpus replace the vocabulary or, in an update, join it; wv.vectors and
\* vectors_lockf get one row per word
SuperBuildVocab(m, update, words) ==
    LET vocab == IF update THEN m.wv.vocab \cup words ELSE words
    IN  [m EXCEPT !.wv.vocab = vocab,
                  !.wv.vectors_rows = Cardinality(vocab),
                  !.trainables.vectors_lockf = Ones(<<Cardinality(vocab)>>)]

\* RecordOldLens with the lengths of a model that has no vocabulary yet
RecordOldLens_Zero(m) ==
    [m EXCEPT !.vocabulary.old_vocab_len = 0,
              !.trainables.old_hash2index_len = 0]

\* build_vocab, lines 527-528, and _set_train_params, lines 544-545: the lengths of the
\* vocabulary and of hash2index as they are now
RecordOldLens(m) ==
    [m EXCEPT !.vocabulary.old_vocab_len = Cardinality(m.wv.vocab),
              !.trainables.old_hash2index_len = Cardinality(m.wv.hash2index)]

\* UpdateRefused with the test of the vocabulary left out
UpdateRefused_Never(update, vocab_len) == FALSE

\* build_vocab, lines 521-526: an update of a model without a vocabulary is refused
UpdateRefused(update, vocab_len) == update /\ vocab_len = 0

\* FastText.build_vocab(sentences, update), lines 521-532, up to the call of
\* FastTextTrainables.init_ngrams_weights
BuildVocab ==
    /\ entry = "build" /\ pc = "idle"
    /\ seen' = NoObservation
    /\ UNCHANGED <<entry, stream, pos, returned, warnings, events, vocabulary, chk, file>>
    /\ \E update \in BOOLEAN, words \in SUBSET BuildWords :
          /\ ~update => words # {}
          /\ IF UpdateRefused(update, Cardinality(model.wv.vocab))
             THEN /\ Raise("RuntimeError", "build_vocab")
                  /\ UNCHANGED <<model, loc, snap>>
             ELSE /\ model' = SuperBuildVocab(IF update THEN RecordOldLens(model)
                                              ELSE model,
                                              update, words)
                  /\ loc' = [loc EXCEPT !.update = update]
                  /\ snap' = IF update THEN Snapshot("build_vocab", model) ELSE NoSnap
                  /\ pc' = "init_ngrams_weights"
                  /\ UNCHANGED <<err, site>>

\* init_ngrams_weights(update=False), lines 1140-1148: fresh tables and masks
InitNgramsWeights ==
    /\ entry = "build" /\ pc = "init_ngrams_weights" /\ ~loc.update
    /\ model' = [model EXCEPT
           !.wv = WvInitNgramsWeights(@),
           !.trainables.vectors_vocab_lockf =
               Ones(<<Cardinality(model.wv.vocab), model.wv.vector_size>>),
           !.trainables.vectors_ngrams_lockf =
               Take(Ones(<<model.trainables.bucket, model.wv.vector_size>>),
                    NgramIndices(model.wv))]
    /\ pc' = "idle"
    /\ UNCHANGED <<entry, stream, pos, err, site, returned, warnings, events, vocabulary,
                   loc, chk, file, snap, seen>>

\* init_ngrams_weights(update=True), lines 1149-1152: the tables of wv are extended
UpdateNgramsWeights ==
    /\ entry = "build" /\ pc = "init_ngrams_weights" /\ loc.update
    /\ loc' = [loc EXCEPT !.old_hash2index_len = Cardinality(model.wv.hash2index)]
    /\ model' = [model EXCEPT
           !.wv = WvUpdateNgramsWeights(@, model.vocabulary.old_vocab_len)]
    /\ pc' = "pad_vocab_lockf"
    /\ UNCHANGED <<entry, stream, pos, err, site, returned, warnings, events, vocabulary,
                   chk, file, snap, seen>>

\* init_ngrams_weights(update=True), lines 1161-1162: the mask of the vocabulary table
PadVocabLockf ==
    /\ entry = "build" /\ pc = "pad_vocab_lockf"
    /\ LET new_vocab == Cardinality(model.wv.vocab) - model.vocabulary.old_vocab_len
           r == PadOnes(model.trainables.vectors_vocab_lockf, new_vocab)
       IN  IF r.err # ""
           THEN /\ Raise(r.err, "pad_ones")
                /\ UNCHANGED model
           ELSE /\ model' = [model EXCEPT !.trainables.vectors_vocab_lockf = r.m]
                /\ pc' = "pad_ngrams_lockf"
                /\ UNCHANGED <<err, site>>
    /\ UNCHANGED <<entry, stream, pos, returned, warnings, events, vocabulary, loc, chk,
                   file, snap, seen>>

\* init_ngrams_weights(update=True), lines 1164-1165: the mask of the n-gram table
PadNgramsLockf ==
    /\ entry = "build" /\ pc = "pad_ngrams_lockf"
    /\ LET new_ngrams == Cardinality(model.wv.hash2index) - loc.old_hash2index_len
           r == PadOnes(model.trainables.vectors_ngrams_lockf, new_ngrams)
       IN  IF r.err # ""
           THEN /\ Raise(r.err, "pad_ones")
                /\ UNCHANGED model
           ELSE /\ model' = [model EXCEPT !.trainables.vectors_ngrams_lockf = r.m]
                /\ pc' = "idle"
                /\ UNCHANGED <<err, site>>
    /\ UNCHANGED <<entry, stream, pos, returned, warnings, events, vocabulary, loc, chk,
                   file, snap, seen>>

\* _set_train_params, lines 534-546, up to the call of init_ngrams_weights
SetTrainParams ==
    /\ entry = "build" /\ pc = "idle"
    /\ seen' = NoObservation
    /\ IF model.wv.buckets_word = "None"
       THEN /\ model' = RecordOldLens(model)
            /\ loc' = [loc EXCEPT !.update = TRUE]
            /\ snap' = Snapshot("_set_train_params", model)
            /\ pc' = "init_ngrams_weights"
       ELSE UNCHANGED <<model, loc, snap, pc>>
    /\ UNCHANGED <<entry, stream, pos, err, site, returned, warnings, events, vocabulary,
                   chk, file>>

\* _clear_post_train, lines 548-553
ClearPostTrain ==
    /\ entry = "build" /\ pc = "idle"
    /\ seen' = NoObservation
    /\ model' = [model EXCEPT !.wv.buckets_word = "None"]
    /\ snap' = NoSnap
    /\ UNCHANGED <<entry, stream, pos, pc, err, site, returned, warnings, events, vocabulary,
                   loc, chk, file>>

\* SaveLoad.load of a model written by save (lines 923-925): the attributes that were
\* ignored are None
Unpickled(m) == [m EXCEPT !.wv.buckets_word = "None"]

\* FastText.load, lines 947-966, of the model as save wrote it, or of one like it written
\* by an older version: without the two masks (lockf false), with or without an attribute
\* 'vectors' in its trainables, without the compatible_hash attributes (has_hash false).
\* The call of logger.warning at line 955 passes a second string as a format argument:
\* logging reports the formatting error and no warning is logged.
Load ==
    /\ entry = "build" /\ pc = "idle"
    /\ seen' = NoObservation
    /\ snap' = NoSnap
    /\ UNCHANGED <<entry, stream, pos, err, site, returned, warnings, events, vocabulary,
                   loc, chk, file>>
    /\ \E lockf \in BOOLEAN, has_vectors \in BOOLEAN, has_hash \in BOOLEAN :
          LET m0 == Unpickled(model)
              filled == Ones(<<m0.wv.vectors_rows>>)
              m1 == IF lockf THEN m0
                    ELSE [m0 EXCEPT !.trainables.vectors_vocab_lockf = filled,
                                    !.trainables.vectors_ngrams_lockf = filled]
          IN  IF ~lockf /\ ~has_vectors
              THEN /\ pc' = "load_old_fasttext"
                   /\ UNCHANGED model
              ELSE IF has_hash
              THEN /\ model' = m1
                   /\ UNCHANGED pc
              ELSE /\ model' = [m1 EXCEPT !.compatible_hash = FALSE,
                                          !.wv.compatible_hash = FALSE,
                                          !.trainables.compatible_hash = None,
                                          !.trainables_compatible_hash = Some(FALSE)]
                   /\ UNCHANGED pc

\* the rows of the mask m that hold 0
Frozen(m) == { i \in DOMAIN m.vals : m.vals[i] = 0 }

\* the user freezes a row: model.trainables.vectors_vocab_lockf[i] = 0 (or the n-gram mask)
FreezeRow ==
    /\ entry = "build" /\ pc = "idle"
    /\ seen' = NoObservation
    /\ Cardinality(Frozen(model.trainables.vectors_vocab_lockf))
       + Cardinality(Frozen(model.trainables.vectors_ngrams_lockf)) < MaxFrozen
    /\ \E name \in { "vectors_vocab_lockf", "vectors_ngrams_lockf" } :
          \E i \in DOMAIN model.trainables[name].vals :
              /\ model.trainables[name].vals[i] = 1
              /\ model' = [model EXCEPT !.trainables[name].vals[i] = 0]
    /\ snap' = NoSnap
    /\ UNCHANGED <<entry, stream, pos, pc, err, site, returned, warnings, events, vocabulary,
                   loc, chk, file>>

\* another thread reads the row counts of the tables and of their masks while a growth
\* is under way
ObserveTables ==
    /\ entry = "build"
    /\ pc \in { "init_ngrams_weights", "pad_vocab_lockf", "pad_ngrams_lockf" }
    /\ loc.update
    /\ seen.at = "never"
    /\ seen' = [at |-> pc,
                old_vectors_vocab |-> snap.vectors_vocab[1],
                old_vectors_vocab_lockf |-> snap.vectors_vocab_lockf.shape[1],
                old_vectors_ngrams |-> snap.vectors_ngrams[1],
                old_vectors_ngrams_lockf |-> snap.vectors_ngrams_lockf.shape[1],
                vectors_vocab |-> model.wv.vectors_vocab.rows,
                vectors_vocab_lockf |-> model.trainables.vectors_vocab_lockf.shape[1],
                vectors_ngrams |-> model.wv.vectors_ngrams.rows,
                vectors_ngrams_lockf |-> model.trainables.vectors_ngrams_lockf.shape[1]]
    /\ UNCHANGED <<entry, stream, pos, pc, err, site, returned, warnings, events, model,
                   vocabulary, loc, chk, file, snap>>

\* estimate_memory, lines 555-591: [err, buckets, report].  The n-grams of every word
\* are hashed modulo trainables.bucket (line 575) when word_ngrams > 0 and there is a
\* vocabulary; the words of the model are short enough for their n-grams to differ, so
\* the n-grams of a word are counted as a set.  A key that report lacks holds 0.
MemoryReport(m) ==
    LET vocab_len == Cardinality(m.wv.vocab)
        vec_size == m.vector_size * 4
        l1_size == m.trainables.layer1_size * 4
        subwords == m.word_ngrams > 0 /\ m.wv.vocab # {}
        ngrams == { <<w, g>> : w \in m.wv.vocab, g \in
                        UNION { Ngrams(v, m.wv.min_n, m.wv.max_n) : v \in m.wv.vocab } }
        of_word == { q \in ngrams : q[2] \in Ngrams(q[1], m.wv.min_n, m.wv.max_n) }
    IN  IF subwords /\ of_word # {} /\ m.trainables.bucket = 0
        THEN [err |-> "ZeroDivisionError", buckets |-> {}, report |-> <<>>]
        ELSE LET buckets == IF subwords
                            THEN { BucketOf(q[2], m.trainables.bucket) : q \in of_word }
                            ELSE {}
                 vocab == vocab_len * (IF m.hs THEN 700 ELSE 500)
                 syn0_vocab == vocab_len * vec_size
                 syn1 == IF m.hs THEN vocab_len * l1_size ELSE 0
                 syn1neg == IF m.negative # 0 THEN vocab_len * l1_size ELSE 0
                 syn0_ngrams == IF subwords THEN Cardinality(buckets) * vec_size ELSE 0
                 buckets_word == IF subwords
                                 THEN 48 * vocab_len + 8 * Cardinality(of_word) ELSE 0
             IN  [err |-> "", buckets |-> buckets,
                  report |-> [vocab |-> vocab, syn0_vocab |-> syn0_vocab, syn1 |-> syn1,
                              syn1neg |-> syn1neg, syn0_ngrams |-> syn0_ngrams,
                              buckets_word |-> buckets_word,
                              total |-> vocab + syn0_vocab + syn1 + syn1neg + syn0_ngrams
                                        + buckets_word]]

\* model.estimate_memory() on a model that was built or loaded; the call leaves the
\* model as it is, and its outcome is the last thing looked at
EstimateMemory ==
    /\ (entry = "build" /\ pc = "idle") \/ (entry = "load" /\ pc = "done")
    /\ chk' = MemoryReport(model)
    /\ pc' = "estimated"
    /\ UNCHANGED <<entry, stream, pos, err, site, returned, warnings, events, model,
                   vocabulary, loc, file, snap, seen>>

\* the attributes of the model and of its keyed vectors that pickling can write
Attributes ==
    { "vectors_norm", "vectors_vocab_norm", "vectors_ngrams_norm", "buckets_word",
      "vocab", "vectors_vocab", "vectors_ngrams", "hash2index" }

\* the keyword arguments a caller passes to save: none, or an 'ignore' list
SaveArgs ==
    { <<>>, [ignore |-> <<>>], [ignore |-> <<"buckets_word">>],
      [ignore |-> <<"vectors_vocab">>] }

\* Ignore with the caller's list appended to the default list
Ignore_Appended(kwargs) ==
    <<"vectors_norm", "vectors_vocab_norm", "vectors_ngrams_norm", "buckets_word">>
    \o (IF "ignore" \in DOMAIN kwargs THEN kwargs.ignore ELSE <<>>)

\* save, lines 923-924: kwargs.get('ignore', [...]), the value kwargs['ignore'] is set to
Ignore(kwargs) ==
    IF "ignore" \in DOMAIN kwargs THEN kwargs.ignore
    ELSE <<"vectors_norm", "vectors_vocab_norm", "vectors_ngrams_norm", "buckets_word">>

\* SaveLoad.save(ignore=ignore): the attributes that are written, all but the ignored
Persisted(ignore) == Attributes \ { ignore[k] : k \in DOMAIN ignore }

\* model.save(fname, **kwargs), lines 907-925, on a model that was built or loaded; the
\* call leaves the model as it is, and what it wrote is the last thing looked at
Save ==
    /\ (entry = "build" /\ pc = "idle") \/ (entry = "load" /\ pc = "done")
    /\ \E kwargs \in SaveArgs :
          chk' = [kwargs |-> kwargs, ignore |-> Ignore(kwargs),
                  persisted |-> Persisted(Ignore(kwargs))]
    /\ pc' = "saved"
    /\ UNCHANGED <<entry, stream, pos, err, site, returned, warnings, events, model,
                   vocabulary, loc, file, snap, seen>>

(***************************************************************************)
(* The input vector of one CBOW window, train_batch_cbow lines 151-164.     *)
(* Vectors have one component, an integer, and a quotient is kept as        *)
(* numerator and denominator.                                              *)
(***************************************************************************)
\* model.wv.syn0_vocab and model.wv.syn0_ngrams: a row per word and a row per bucket
Syn0Vocab == <<6, 12>>

Syn0Ngrams == <<24, 48>>

RECURSIVE Extend(_, _, _)
\* lines 154-156: the buckets of the words at the indices, one list after the other
Extend(ngrams_subwords_indices, word2_indices, buckets_word) ==
    IF word2_indices = <<>> THEN ngrams_subwords_indices
    ELSE Extend(ngrams_subwords_indices \o buckets_word[Head(word2_indices)],
                Tail(word2_indices), buckets_word)

RECURSIVE NpSum(_, _)
\* np_sum(table[indices], axis=0): the sum of the rows at the 0-based indices, a row
\* as often as its index occurs; 0 for no index
NpSum(table, indices) ==
    IF indices = <<>> THEN 0
    ELSE table[Head(indices) + 1] + NpSum(table, Tail(indices))

\* MeanDivisor with every bucket counted once
MeanDivisor_DistinctBuckets(vocab_subwords_indices, ngrams_subwords_indices) ==
    Len(vocab_subwords_indices)
    + Cardinality({ ngrams_subwords_indices[k] : k \in DOMAIN ngrams_subwords_indices })

\* line 164: len(subwords_indices[0]) + len(subwords_indices[1])
MeanDivisor(vocab_subwords_indices, ngrams_subwords_indices) ==
    Len(vocab_subwords_indices) + Len(ngrams_subwords_indices)

\* lines 151-164: l1 for the context words at word2_indices
ComposeL1(word2_indices, buckets_word, cbow_mean) ==
    LET vocab_subwords_indices == word2_indices
        ngrams_subwords_indices == Extend(<<>>, word2_indices, buckets_word)
        l1_vocab == NpSum(Syn0Vocab, vocab_subwords_indices)
        l1_ngrams == NpSum(Syn0Ngrams, ngrams_subwords_indices)
        l1 == l1_vocab + l1_ngrams
    IN  IF (vocab_subwords_indices # <<>> \/ ngrams_subwords_indices # <<>>)
           /\ cbow_mean # 0
        THEN [num |-> l1,
              den |-> MeanDivisor(vocab_subwords_indices, ngrams_subwords_indices)]
        ELSE [num |-> l1, den |-> 1]

\* windows of up to MaxWindow context words, each word with up to MaxWindow buckets
CbowInputs ==
    [word2_indices : SeqsUpTo({ 0, 1 }, MaxWindow),
     buckets_word : [{ 0, 1 } -> SeqsUpTo({ 0, 1 }, MaxWindow)],
     cbow_mean : { 0, 1 },
     l1 : { [num |-> 0, den |-> 1] }]

\* train_batch_cbow, lines 151-164, for one position of one sentence
TrainBatchCbow ==
    /\ entry = "cbow" /\ pc = "compose"
    /\ chk' = [chk EXCEPT !.l1 = ComposeL1(chk.word2_indices, chk.buckets_word,
                                           chk.cbow_mean)]
    /\ pc' = "composed"
    /\ UNCHANGED <<entry, stream, pos, err, site, returned, warnings, events, model,
                   vocabulary, loc, file, snap, seen>>

\* the parsed file m and the model built from it, as _check_model finds them; and one
\* of these with every loss and model type
CheckInputs ==
    [vector_size : {2}, ngrams_cols : 2..3, syn1neg : {"None", "array"}, syn1neg_cols : 2..3,
     vocab_len : 0..MaxVocab, nwords : 0..MaxVocab, vocab_size : 0..MaxVocab,
     loss : {2}, model : {2}]
    \cup [vector_size : {2}, ngrams_cols : {2}, syn1neg : {"array"}, syn1neg_cols : {2},
          vocab_len : {2}, nwords : {2}, vocab_size : {2}, loss : 0..2, model : 1..3]

\* load_fasttext_format builds the model with cls(); load_binary_data may also be
\* called on a model that was created with other arguments
InitLoad ==
    /\ entry = "load"
    /\ \E d \in Files : file = d /\ stream = FileBytes(d)
    /\ pc = "load_model_params"
    /\ chk = NoCheck
    /\ \/ model = NewFastText
       \/ /\ file \in { BaseFile(fmt) : fmt \in Formats }
          /\ model = FastText(100, 3, 6, 2000000, 1, FALSE)
    /\ loc = NoLocals

InitCheck ==
    /\ entry = "check"
    /\ file = BaseFile("new")
    /\ stream = <<>>
    /\ pc = "check_model"
    /\ chk \in CheckInputs
    /\ model = [NewFastText EXCEPT !.hs = HierarchicalSoftmax(chk.loss),
                                   !.sg = SkipGram(chk.model)]
    /\ loc = NoLocals

InitMatrix ==
    /\ entry = "matrix"
    /\ \E d \in MatrixStreams : file = d /\ stream = MatrixStreamBytes(d)
    /\ pc = "load_matrix"
    /\ \E e \in ExpectedSizes :
           chk = [new_format |-> file.fmt = "new", expected_vector_size |-> e,
                  matrix |-> Matrix(0, 0, <<>>)]
    /\ model = NewFastText
    /\ loc = NoLocals

InitCbow ==
    /\ entry = "cbow"
    /\ file = BaseFile("new")
    /\ stream = <<>>
    /\ pc = "compose"
    /\ chk \in CbowInputs
    /\ model = NewFastText
    /\ loc = NoLocals

\* FastText(size=2, min_n=..., max_n=..., bucket=..., word_ngrams=...,
\* compatible_hash=...): no corpus, so no vocabulary yet
InitBuild ==
    /\ entry = "build"
    /\ file \in BuildArgs
    /\ stream = <<>>
    /\ pc = "idle"
    /\ chk = NoCheck
    /\ model = FastText(2, file.min_n, file.max_n, file.bucket, file.word_ngrams,
                        file.compatible_hash)
    /\ loc = NgramLocals

\* what every behaviour starts with
Fresh ==
    /\ pos = 0
    /\ err = ""
    /\ site = ""
    /\ returned = FALSE
    /\ warnings = 0
    /\ events = <<>>
    /\ vocabulary = NewFastText.vocabulary
    /\ snap = NoSnap
    /\ seen = NoObservation

\* the entry points that read a file or check a parsed one
LoadInit == (InitLoad \/ InitCheck \/ InitMatrix) /\ Fresh

Init == (InitLoad \/ InitCheck \/ InitMatrix \/ InitBuild \/ InitCbow) /\ Fresh

LoadNext ==
    \/ LoadModelParams
    \/ LoadVocabHeader
    \/ WordFor
    \/ WordWhile
    \/ WordBody
    \/ WordEnd
    \/ PruneFor
    \/ PrepareAndCheck
    \/ LoadVectors
    \/ LoadTrainables
    \/ ReturnModel
    \/ CheckModel
    \/ CallLoadMatrix

Next ==
    \/ LoadNext
    \/ BuildVocab
    \/ InitNgramsWeights
    \/ UpdateNgramsWeights
    \/ PadVocabLockf
    \/ PadNgramsLockf
    \/ SetTrainParams
    \/ ClearPostTrain
    \/ Load
    \/ FreezeRow
    \/ ObserveTables
    \/ EstimateMemory
    \/ Save
    \/ TrainBatchCbow

Spec == Init /\ [][Next]_vars

\* the interpreter keeps executing the loader: a step that can be taken is taken
FairSpec == LoadInit /\ [][LoadNext]_vars /\ WF_vars(LoadNext)

(***************************************************************************)
(* Properties.                                                             *)
(***************************************************************************)
Count(seq, x) == Cardinality({ k \in 1..Len(seq) : seq[k] = x })

Has(seq, x) == \E k \in 1..Len(seq) : seq[k] = x

\* x occurs in seq, and only before the first y
Before(seq, x, y) == \A k \in 1..Len(seq) : seq[k] = y => \E l \in 1..(k - 1) : seq[l] = x

\* _load_vocab has returned its vocabulary to _load_model_params
VocabReturned == entry = "load" /\ model.vocabulary = vocabulary /\ Has(events, "vocab_sizes")

Ended == pc \in { "done", "failed" }

\* C1: on every file the load eventually ends, by returning the model or by an
\* exception, also when the file ends inside a vocabulary word.
C1_LoadTerminates == <>Ended

\* C2: once the prepared vocabulary has passed the word-count check but differs in
\* size from the declared vocabulary size, a warning has been logged and the load has
\* not been aborted by that check.
C2_VocabSizeMismatchWarns ==
    /\ ( /\ entry = "load"
         /\ VocabReturned
         /\ Cardinality(model.wv.vocab) = model.vocabulary.nwords
         /\ Cardinality(model.wv.vocab) # model.vocabulary.vocab_size )
       => (warnings > 0 /\ site # "vocab_size_warning")
    /\ ( /\ entry = "check"
         /\ pc # "check_model"
         /\ chk.vector_size = chk.ngrams_cols
         /\ chk.syn1neg # "None" => chk.vector_size = chk.syn1neg_cols
         /\ chk.vocab_len = chk.nwords
         /\ chk.vocab_len # chk.vocab_size )
       => (warnings > 0 /\ site # "vocab_size_warning")

\* the prepared vocabulary differs in size from the declared word count
NwordsMismatch ==
    \/ /\ entry = "load"
       /\ VocabReturned
       /\ Cardinality(model.wv.vocab) # model.vocabulary.nwords
    \/ /\ entry = "check"
       /\ pc # "check_model"
       /\ chk.vocab_len # chk.nwords

\* C3 (as claimed): a word-count mismatch does not end the load.
C3_NwordsMismatchNotFatal == NwordsMismatch => pc # "failed"

\* C3 (amended): a word-count mismatch ends the load with an AssertionError: no
\* model is returned and, in load_binary_data, no matrix has been read.
C3_NwordsMismatchFatal ==
    NwordsMismatch => /\ pc = "failed"
                      /\ err = "AssertionError"
                      /\ ~returned
                      /\ ~Has(events, "input_matrix")
                      /\ ~Has(events, "output_matrix")

C3_Witness ==
    entry = "load" /\ NwordsMismatch /\ site = "nwords"

HeaderRead == entry = "load" /\ Has(events, "header")

\* C6: the file is taken as new format exactly when its first integer is the magic
\* number; 8 + 56 bytes are then read, and 8 + 48 bytes of a legacy file; and either
\* format yields the field values the header was written from.
C6_HeaderDecoding ==
    HeaderRead =>
        /\ model.new_format = (I32(SubSeq(stream, 1, 4)) = 793712314)
        /\ model.new_format = (file.fmt = "new")
        /\ pc = "load_vocab" => pos = (IF model.new_format THEN 4 * 14 + 8 ELSE 4 * 12 + 8)
        /\ model.vector_size = file.hdr.dim
        /\ model.wv.vector_size = file.hdr.dim
        /\ model.window = file.hdr.ws
        /\ model.epochs = file.hdr.epoch
        /\ loc.min_count = file.hdr.min_count
        /\ model.negative = file.hdr.neg
        /\ model.hs = (file.hdr.loss = 1)
        /\ model.sg = (file.hdr.model = 2)
        /\ model.trainables.bucket = file.hdr.bucket
        /\ model.wv.bucket = file.hdr.bucket
        /\ model.wv.min_n = file.hdr.minn
        /\ model.wv.max_n = file.hdr.maxn
        /\ loc.t = file.hdr.t

C6_Witness == HeaderRead /\ ~model.new_format /\ file.fmt = "legacy" /\ pc = "load_vocab"

\* C7: a label count above 0 ends the load with NotImplementedError before any word
\* entry is read and without a model being returned; a label count of 0 (or below)
\* never does.
C7_LabelsUnsupported ==
    (entry = "load" /\ Has(events, "vocab_sizes")) =>
        /\ file.nlabels > 0 => /\ pc = "failed"
                               /\ err = "NotImplementedError"
                               /\ ~Has(events, "word")
                               /\ ~returned
        /\ file.nlabels <= 0 => err # "NotImplementedError"

C7_Witness == entry = "load" /\ file.nlabels > 0 /\ err = "NotImplementedError"

\* every section of the file has been loaded
AllSectionsLoaded ==
    /\ Has(events, "header")
    /\ VocabReturned
    /\ Has(events, "input_matrix")
    /\ Has(events, "output_matrix")
    /\ Has(events, "eof")

\* C8: a load that failed has returned no model to the caller, and a model that was
\* returned has every section loaded.
C8_FailureReturnsNoModel ==
    /\ err # "" => pc = "failed" /\ ~returned
    /\ pc = "failed" => ~returned
    /\ (entry = "load" /\ returned) => (err = "" /\ AllSectionsLoaded)

C8_Witness == entry = "load" /\ pc = "failed" /\ site = "shape" /\ Has(events, "input_matrix")

\* C9: the sections are read once each in the order header, vocabulary, input matrix,
\* output matrix; the input matrix only after the vocabulary is complete, the output
\* matrix only after the input matrix.
C9_SectionOrder ==
    entry = "load" =>
        /\ \A x \in { "header", "vocab_sizes", "input_matrix", "output_matrix" } :
               Count(events, x) <= 1
        /\ Before(events, "header", "vocab_sizes")
        /\ \A x \in { "vocab_sizes", "ntokens", "pruneidx_size", "word", "pair" } :
               \A k \in 1..Len(events) :
                   events[k] = x => \A l \in 1..(k - 1) :
                                        events[l] \notin { "input_matrix", "output_matrix" }
        /\ Before(events, "input_matrix", "output_matrix")
        /\ Has(events, "input_matrix") =>
               /\ VocabReturned
               /\ Count(events, "word") = Max(0, vocabulary.vocab_size)
        /\ Has(events, "output_matrix") =>
               model.num_original_vectors =
                   model.trainables.bucket + Cardinality(model.wv.vocab)

C9_Witness == entry = "load" /\ Has(events, "output_matrix") /\ pc = "done"

\* C10: when the output matrix has been read, a byte left in the file ends the load
\* with an AssertionError and no model is returned; with no byte left, the check for
\* the end of the file does not fail.
C10_TrailingData ==
    [][ ( /\ entry = "load"
          /\ pc = "load_trainables"
          /\ Has(events', "output_matrix") )
        => LET end == LoadMatrix(stream, pos, model.new_format, Some(model.wv.vector_size)).pos
           IN  /\ end < Len(stream) =>
                      /\ pc' = "failed"
                      /\ err' = "AssertionError"
                      /\ site' = "eof"
                      /\ ~returned'
               /\ end >= Len(stream) => site' # "eof" ]_vars

C10_Witness == entry = "load" /\ pc = "failed" /\ site = "eof" /\ file.trailing # <<>>

\* _load_matrix was called on its own and has ended
MatrixCalled == entry = "matrix" /\ pc # "load_matrix"

\* C11: a matrix read with an expected dimension fails with the dimension-mismatch
\* AssertionError whenever the column count written in its header differs from the
\* expected dimension, and never for this reason when they are equal or when no
\* expected dimension is given; the loader, which always passes the model's vector
\* size, fails this way only on a column count that differs from it.
C11_DimensionCheck ==
    /\ MatrixCalled =>
           /\ (chk.expected_vector_size # None /\ chk.expected_vector_size # Some(file.cols))
                  => (pc = "failed" /\ err = "AssertionError" /\ site = "matrix_dim")
           /\ (chk.expected_vector_size = None \/ chk.expected_vector_size = Some(file.cols))
                  => site # "matrix_dim"
    /\ (entry = "load" /\ site = "matrix_dim") =>
           /\ pc = "failed" /\ err = "AssertionError"
           /\ file.cut < 0 /\ file.vocab_size = Len(file.entries) /\ file.pruneidx_size < 0
                  => (file.in_cols # model.wv.vector_size \/ file.out_cols # model.wv.vector_size)

C11_Witness ==
    /\ MatrixCalled
    /\ chk.expected_vector_size = Some(3)
    /\ file.cols = 2
    /\ site = "matrix_dim"

\* C12: in the new format, a matrix whose quantization flag is set is refused: the
\* read fails and the bytes that follow are not returned as a dense matrix.
C12_QuantizedRejected ==
    (MatrixCalled /\ file.fmt = "new" /\ file.quant # 0) => pc = "failed"

\* C13: a matrix header followed by fewer than rows * cols floats makes the read fail,
\* and a matrix that is returned has the shape (rows, cols) of its header and
\* rows * cols elements.
C13_NoShortMatrix ==
    MatrixCalled =>
        /\ file.floats < file.rows * file.cols => pc = "failed"
        /\ pc = "done" => /\ chk.matrix.rows = file.rows
                          /\ chk.matrix.cols = file.cols
                          /\ Len(chk.matrix.data) = file.rows * file.cols

\* the file is whole and its vocabulary section is as long as it says
Aligned ==
    /\ entry = "load"
    /\ file.cut < 0
    /\ file.vocab_size = Len(file.entries)
    /\ file.pruneidx_size < 0

\* C14: once the input matrix has been read, the load goes on only if the matrix has
\* exactly bucket + (number of vocabulary words loaded) rows and vector_size columns;
\* any other shape ends the load with an AssertionError and no model is returned.
C14_InputMatrixShape ==
    (entry = "load" /\ Has(events, "input_matrix")) =>
        LET rows == model.num_original_vectors
            shape_ok == /\ rows = model.trainables.bucket + Cardinality(model.wv.vocab)
                        /\ model.wv.vectors_ngrams.cols = model.wv.vector_size
        IN  /\ ~shape_ok => (pc = "failed" /\ err = "AssertionError" /\ site = "shape"
                             /\ ~returned)
            /\ shape_ok => site # "shape"
            /\ (Aligned /\ file.in_rows >= 0 /\ returned) =>
                   /\ file.in_rows = file.hdr.bucket
                                     + Cardinality(KeptWords(file.entries, file.hdr.min_count))
                   /\ file.in_cols = file.hdr.dim

C14_Witness ==
    /\ entry = "load"
    /\ site = "shape"
    /\ model.num_original_vectors = 2
    /\ model.trainables.bucket = 1
    /\ Cardinality(model.wv.vocab) = 2

\* the count of the last of the entries es that are for the word w
LastCount(es, w) ==
    LET last == CHOOSE k \in 1..Len(es) :
                    /\ es[k].word = w
                    /\ \A l \in (k + 1)..Len(es) : es[l].word # w
    IN  es[last].count

\* C15: the word-to-count mapping holds one entry for each word among the entries
\* read so far, with the count of the last of them for that word; counts of repeated
\* words are not added up.
C15_LastWriteWins ==
    (entry = "load" /\ Has(events, "vocab_sizes")) =>
        LET k == Count(events, "word")
            es == SubSeq(file.entries, 1, k)
        IN  k <= Len(file.entries) =>
                /\ DOMAIN vocabulary.raw_vocab = { es[l].word : l \in 1..k }
                /\ \A w \in DOMAIN vocabulary.raw_vocab :
                       vocabulary.raw_vocab[w] = LastCount(es, w)

C15_Witness ==
    /\ VocabReturned
    /\ Count(events, "word") = 2
    /\ Len(file.entries) = 2
    /\ file.entries[1].word = file.entries[2].word
    /\ file.entries[1].count = 5
    /\ file.entries[2].count = 1
    /\ vocabulary.raw_vocab[file.entries[1].word] = 1

\* a growth started by build_vocab(update=True) has completed
GrowthDone == entry = "build" /\ pc = "idle" /\ snap.op = "build_vocab"

\* C16: when build_vocab(update=True) has taken a vocabulary of n words to n + k words,
\* the lock-factor mask of the vocabulary table has n + k rows: its n rows as they
\* were before the call, at their places, followed by k rows of ones; and n, the
\* length recorded in old_vocab_len, is the length before the words were added.
C16_GrowthPadsVocabMask ==
    GrowthDone =>
        LET n == snap.vocab_len
            k == Cardinality(model.wv.vocab) - n
            old == snap.vectors_vocab_lockf
            new == model.trainables.vectors_vocab_lockf
        IN  /\ model.vocabulary.old_vocab_len = n
            /\ old.shape[1] = n
            /\ new.shape = <<n + k, old.shape[2]>>
            /\ DOMAIN new.vals = 1..(n + k)
            /\ \A i \in 1..n : new.vals[i] = old.vals[i]
            /\ \A i \in (n + 1)..(n + k) : new.vals[i] = 1

C16_Witness ==
    /\ GrowthDone
    /\ snap.vocab_len = 1
    /\ Cardinality(model.wv.vocab) = 3
    /\ snap.vectors_vocab_lockf.vals = <<0>>
    /\ model.trainables.vectors_vocab_lockf.vals = <<0, 1, 1>>

\* no operation is under way on the model
Quiescent == (entry = "build" /\ pc = "idle") \/ (entry = "load" /\ pc = "done")

\* C17: whenever no operation is under way, each lock-factor mask has the shape of the
\* table it guards: vectors_vocab_lockf that of wv.vectors_vocab, vectors_ngrams_lockf
\* that of wv.vectors_ngrams.
C17_MasksGuardTables ==
    Quiescent =>
        /\ model.trainables.vectors_vocab_lockf.shape = Shape(model.wv.vectors_vocab)
        /\ model.trainables.vectors_ngrams_lockf.shape = Shape(model.wv.vectors_ngrams)

\* every value of the mask new is 1 or the value the mask old holds at the same place
OnlyOnesWritten(old, new) ==
    \A i \in DOMAIN new.vals :
        new.vals[i] = 1 \/ (i \in DOMAIN old.vals /\ new.vals[i] = old.vals[i])

\* C18: no step of the module puts a value other than 1 into a lock-factor mask: after
\* every step other than a write by the user, each value of each mask is 1 or is the
\* value that was there before the step.
C18_MasksHoldOnes ==
    [][ FreezeRow
        \/ \A name \in { "vectors_lockf", "vectors_vocab_lockf", "vectors_ngrams_lockf" } :
               OnlyOnesWritten(model.trainables[name], model'.trainables[name]) ]_vars

C18_Witness ==
    /\ entry = "build" /\ pc = "idle"
    /\ model.trainables.vectors_vocab_lockf.shape = <<2>>
    /\ model.trainables.vectors_vocab_lockf.vals = <<1, 1>>
    /\ model.trainables.vectors_ngrams_lockf.vals = <<1, 1>>

\* C19: the three records of the hash variant agree: that of the model, that of its
\* keyed vectors and that of its trainables.
C19_HashVariantConsistent ==
    entry \in { "load", "build" } =>
        /\ model.wv.compatible_hash = model.compatible_hash
        /\ model.trainables.compatible_hash = Some(model.compatible_hash)

\* C20: a reader that ran during a growth did not see a table with more rows than it
\* had when the growth began next to a mask that still had its old number of rows.
C20_NoTornRead ==
    seen.at # "never" =>
        /\ ~( /\ seen.vectors_vocab > seen.old_vectors_vocab
              /\ seen.vectors_vocab_lockf = seen.old_vectors_vocab_lockf )
        /\ ~( /\ seen.vectors_ngrams > seen.old_vectors_ngrams
              /\ seen.vectors_ngrams_lockf = seen.old_vectors_ngrams_lockf )

\* C21: every bucket index computed from an n-gram lies in 0..bucket-1, and with a
\* bucket count of 0 none is computed: the keys of hash2index are in range, and
\* estimate_memory ends without an error with buckets that are in range.
C21_BucketIndexInRange ==
    /\ entry \in { "load", "build" } =>
           \A b \in model.wv.hash2index : 0 <= b /\ b < model.wv.bucket
    /\ pc = "estimated" =>
           /\ chk.err = ""
           /\ \A b \in chk.buckets : 0 <= b /\ b < model.trainables.bucket

\* the attributes that are derived from the others and rebuilt when needed
Derived == { "vectors_norm", "vectors_vocab_norm", "vectors_ngrams_norm", "buckets_word" }

\* C22: a save without an 'ignore' argument writes neither buckets_word nor any of the
\* normalised caches, and a save with an 'ignore' argument ignores what that argument
\* names and nothing else.
C22_SaveIgnoresDerived ==
    pc = "saved" =>
        IF "ignore" \in DOMAIN chk.kwargs
        THEN /\ chk.ignore = chk.kwargs.ignore
             /\ \A a \in Attributes :
                    a \in chk.persisted <=>
                        ~(\E k \in DOMAIN chk.kwargs.ignore : chk.kwargs.ignore[k] = a)
        ELSE /\ chk.persisted \cap Derived = {}
             /\ Attributes \ Derived \subseteq chk.persisted

C22_Witness ==
    /\ pc = "saved"
    /\ chk.kwargs = [ignore |-> <<"vectors_vocab">>]
    /\ "buckets_word" \in chk.persisted
    /\ "vectors_vocab" \notin chk.persisted

\* C23: a build_vocab(update=True) on a model whose vocabulary is empty ends with
\* RuntimeError and leaves the model as it was: the recorded lengths, the vocabulary,
\* the tables and the masks.
C23_UpdateOnEmptyRefused ==
    [][ (BuildVocab /\ model.wv.vocab = {} /\ (loc'.update \/ err' # ""))
        => /\ err' = "RuntimeError"
           /\ pc' = "failed"
           /\ model' = model
           /\ vocabulary' = vocabulary
           /\ loc' = loc ]_vars

C23_Witness ==
    /\ entry = "build"
    /\ err = "RuntimeError" /\ site = "build_vocab"
    /\ model.wv.vocab = {}
    /\ model.vocabulary.old_vocab_len = 0
    /\ model.wv.vectors_vocab.rows = 0

\* C24: in a loaded model hierarchical softmax is on exactly when the loss field is
\* 1, and the model is a skip-gram model exactly when the model-type field is 2; with
\* any other model type it is a CBOW model.  Both loaders decode the fields so.
C24_LossAndModelFlags ==
    /\ HeaderRead =>
           /\ model.hs <=> file.hdr.loss = 1
           /\ model.sg <=> file.hdr.model = 2
    /\ entry = "check" =>
           /\ model.hs <=> chk.loss = 1
           /\ model.sg <=> chk.model = 2

C24_Witness ==
    /\ HeaderRead /\ returned
    /\ file.hdr.loss = 1 /\ model.hs
    /\ file.hdr.model = 3 /\ ~model.sg

\* the bucket indices that contribute to the window, one pair <<k, j>> for the j-th
\* bucket of the k-th context word
Contributions ==
    { q \in (1..Len(chk.word2_indices)) \X (1..MaxWindow) :
        q[2] <= Len(chk.buckets_word[chk.word2_indices[q[1]]]) }

\* C25: in mean mode the input vector is the sum of the contributing rows divided by
\* their number, a row counted as often as it contributes: one for every context word
\* and one for every bucket index of every context word; without a contributing row,
\* and outside mean mode, the sum is not divided.
C25_MeanDividesByRows ==
    (entry = "cbow" /\ pc = "composed") =>
        LET words == Len(chk.word2_indices)
            rows == words + Cardinality(Contributions)
            word(i) == Cardinality({ k \in 1..words : chk.word2_indices[k] = i })
            bucket(b) == Cardinality({ q \in Contributions :
                             chk.buckets_word[chk.word2_indices[q[1]]][q[2]] = b })
        IN  /\ chk.l1.num = 6 * word(0) + 12 * word(1) + 24 * bucket(0) + 48 * bucket(1)
            /\ chk.l1.den = IF chk.cbow_mean # 0 /\ rows > 0 THEN rows ELSE 1

C25_Witness ==
    /\ entry = "cbow" /\ pc = "composed"
    /\ chk.cbow_mean = 1
    /\ chk.word2_indices = <<0, 0>>
    /\ chk.buckets_word[0] = <<1, 1>>
    /\ chk.l1 = [num |-> 204, den |-> 6]

\* the matrix whose elements are the floats of the stream, if these fill it
WrittenMatrix == Matrix(file.rows, file.cols, [k \in 1..file.floats |-> FloatBits(k)])

\* the stream is what the writer makes of a matrix with the shape of its header
IsWritten ==
    /\ file.rows >= 0 /\ file.cols >= 0
    /\ file.floats = file.rows * file.cols
    /\ stream = WriteMatrix(file.fmt = "new", WrittenMatrix)

\* a written matrix read back is the matrix that was written, and the read has taken
\* every byte
ReadInvertsWrite ==
    (MatrixCalled /\ IsWritten /\ DimMatches(chk.expected_vector_size, file.cols))
        => /\ pc = "done"
           /\ chk.matrix = WrittenMatrix
           /\ pos = Len(stream)

\* the matrix that was read, written again, is the bytes it was read from
WriteInvertsRead ==
    (MatrixCalled /\ pc = "done")
        => WriteMatrix(file.fmt = "new", chk.matrix) = SubSeq(stream, 1, pos)

\* C26: in both formats the codec is a round trip: reading what was written of a
\* matrix yields its rows, columns and elements, and writing is the inverse of
\* reading: what was read, written again, is the bytes that were read.
C26_MatrixRoundTrip == ReadInvertsWrite /\ WriteInvertsRead

\* a re-initialisation started by _set_train_params is under way or has completed
Reinit == entry = "build" /\ snap.op = "_set_train_params"

\* C27: _clear_post_train sets buckets_word to None and leaves the mask of the
\* vocabulary table alone; _set_train_params changes nothing when buckets_word is not
\* None, and otherwise records the present vocabulary length as old_vocab_len and
\* takes the growth path, which rebuilds buckets_word and at no step changes the mask
\* of the vocabulary table: after the cycle the mask has the rows it had before.
C27_ReinitKeepsVocabMask ==
    [][ /\ ClearPostTrain =>
               /\ model'.wv.buckets_word = "None"
               /\ model'.trainables.vectors_vocab_lockf
                      = model.trainables.vectors_vocab_lockf
        /\ (SetTrainParams /\ model.wv.buckets_word # "None") =>
               /\ model' = model
               /\ pc' = pc
        /\ (SetTrainParams /\ model.wv.buckets_word = "None") =>
               /\ model'.vocabulary.old_vocab_len = Cardinality(model.wv.vocab)
               /\ loc'.update
               /\ pc' = "init_ngrams_weights"
        /\ (Reinit /\ UpdateNgramsWeights) => model'.wv.buckets_word = "dict"
        /\ (Reinit /\ snap' = snap) =>
               model'.trainables.vectors_vocab_lockf
                   = model.trainables.vectors_vocab_lockf
        /\ (Reinit /\ pc = "idle") =>
               model.trainables.vectors_vocab_lockf = snap.vectors_vocab_lockf ]_vars

C27_Witness ==
    /\ Reinit /\ pc = "idle"
    /\ model.wv.buckets_word = "dict"
    /\ model.vocabulary.old_vocab_len = 2
    /\ Cardinality(model.wv.vocab) = 2
    /\ model.trainables.vectors_vocab_lockf.vals = <<0, 1>>
    /\ snap.vectors_vocab_lockf.vals = <<0, 1>>

\* the mask m has two dimensions and as many columns as the vectors have components
TwoDimensional(m) == Len(m.shape) = 2 /\ m.shape[2] = model.wv.vector_size

\* C28: whenever no operation is under way the masks of both tables are
\* two-dimensional with vector_size columns, and no growth step finds a mask that
\* _pad_ones cannot unpack into rows and columns.
C28_MasksTwoDimensional ==
    /\ Quiescent =>
           /\ TwoDimensional(model.trainables.vectors_vocab_lockf)
           /\ TwoDimensional(model.trainables.vectors_ngrams_lockf)
    /\ ~(err = "ValueError" /\ site = "pad_ones")

\* C29: wv.bucket equals trainables.bucket after construction, after every later
\* operation on the model and after the header of a native file is read, when both
\* are the bucket count of the header; the constructor makes both 0 exactly when
\* word_ngrams <= 1 and max_n = 0, and the requested bucket count otherwise.
C29_BucketConsistent ==
    /\ entry \in { "load", "build" } => model.wv.bucket = model.trainables.bucket
    /\ entry = "build" =>
           model.trainables.bucket
               = (IF file.word_ngrams <= 1 /\ file.max_n = 0 THEN 0 ELSE file.bucket)
    /\ HeaderRead => model.trainables.bucket = file.hdr.bucket

C29_Witness ==
    /\ entry = "build" /\ pc = "idle"
    /\ file.word_ngrams = 1 /\ file.max_n = 0 /\ file.bucket = 2
    /\ model.wv.bucket = 0 /\ model.trainables.bucket = 0
    /\ model.wv.vocab # {}

=============================================================================
